---------------------------- MODULE Spec2Model ----------------------------
(***************************************************************************)
(* Study planner backend: the relational store (subjects, tasks,          *)
(* study_sessions), the CRUD route handlers that write it and the four     *)
(* progress aggregation handlers (/stats, /weekly, /subjects, /daily)      *)
(* that read it.                                                           *)
(*                                                                         *)
(* Conventions.                                                            *)
(*  - A table is a function from the ids of its rows to the rows.  Only    *)
(*    the columns some handler reads or some aggregate uses are kept       *)
(*    (title, description, priority, due_time, color, notes, start_time    *)
(*    and the created_at/updated_at stamps are passed through by the       *)
(*    handlers and never decide anything).                                 *)
(*  - A nullable column or an optional request field is a set: {} is SQL   *)
(*    NULL / JavaScript undefined, {v} is the value v.                     *)
(*  - A date is a day number counted from a Monday (day 0 is 2024-01-01);  *)
(*    a timestamp is kept at day granularity, which is all                 *)
(*    DATE(completed_at) reads.                                            *)
(*  - A JavaScript value of the `completed` body field is a string tag:    *)
(*    "b:true"/"b:false" are the JSON booleans, "s:..." the strings the    *)
(*    isBoolean validator also admits.                                     *)
(***************************************************************************)
EXTENDS Integers, Sequences, FiniteSets, TLC

VARIABLES subjects, tasks, sessions, today, resp, reqs

vars == <<subjects, tasks, sessions, today, resp, reqs>>
store == <<subjects, tasks, sessions>>

-----------------------------------------------------------------------------
(* Bounds of the model *)

MaxSubjects == 2
MaxTasks == 2
MaxSessions == 2
MaxDay == 2
MaxReqs == 2

Users == {"u1", "u2"}
SubjectIds == 1..MaxSubjects
TaskIds == 1..MaxTasks
SessionIds == 1..MaxSessions
ReqIds == 1..MaxReqs

NULL == {}
Idle == [op |-> "idle", user |-> "none", query |-> <<>>, status |-> 0, body |-> <<>>]

-----------------------------------------------------------------------------
(* Helpers: SQL aggregates over sets of rows *)

RECURSIVE SumOver(_, _)
SumOver(f, S) ==
  IF S = {} THEN 0
  ELSE LET x == CHOOSE y \in S : TRUE
       IN f[x] + SumOver(f, S \ {x})

Max(a, b) == IF a >= b THEN a ELSE b

\* uuid_generate_v4(): an id no row of the table has
FreshId(table, ids) == CHOOSE i \in ids \ DOMAIN table : \A j \in ids \ DOMAIN table : i <= j

Insert(table, id, row) == [i \in DOMAIN table \cup {id} |-> IF i = id THEN row ELSE table[i]]

\* JavaScript truthiness of a `completed` body value, and the boolean
\* PostgreSQL stores for it in a BOOLEAN column
Truthy(v) == v # "b:false"
PgBool(v) == v \in {"b:true", "s:true", "s:1"}

\* The ratio rounded without the * 100
RoundPct_Fraction(x, y) == (2 * x + y) \div (2 * y)

\* Math.round(x / y * 100) for y > 0
RoundPct(x, y) == (200 * x + y) \div (2 * y)


-----------------------------------------------------------------------------
(* Rows *)

SubjectRow(u, name) == [user_id |-> u, name |-> name]

\* INSERT INTO tasks (...): completed takes its column default FALSE and
\* completed_at is left NULL
NewTaskRow(u, subjectId, dueDate, estimatedTime) ==
  [user_id |-> u, subject_id |-> subjectId, due_date |-> dueDate,
   estimated_time |-> estimatedTime, completed |-> FALSE, completed_at |-> NULL]

SessionRow(u, subjectId, sessionDate, duration) ==
  [user_id |-> u, subject_id |-> subjectId, session_date |-> sessionDate,
   duration |-> duration]

\* The subject check without its AND user_id = $2
SubjectCheck_AnyOwner(subjectId, u) ==
  {s \in DOMAIN subjects : s = subjectId}

\* SELECT id FROM subjects WHERE id = $1 AND user_id = $2
SubjectCheck(subjectId, u) ==
  {s \in DOMAIN subjects : s = subjectId /\ subjects[s].user_id = u}

\* The task lookup without its AND user_id = $2
ExistingTask_AnyOwner(id, u) ==
  {t \in DOMAIN tasks : t = id}

\* SELECT id, completed FROM tasks WHERE id = $1 AND user_id = $2
ExistingTask(id, u) ==
  {t \in DOMAIN tasks : t = id /\ tasks[t].user_id = u}

\* The answer to a request: the request (handler, authenticated user, query
\* parameters of a read) with the HTTP status and the JSON body (<<>> where
\* the body decides nothing)
Respond(op, u, query, status, body) ==
  [op |-> op, user |-> u, query |-> query, status |-> status, body |-> body]

-----------------------------------------------------------------------------
(* Subject and study-session handlers *)

\* POST /subjects
PostSubject(u, name) ==
  LET existingSubject == {s \in DOMAIN subjects :
                            subjects[s].user_id = u /\ subjects[s].name = name}
  IN /\ DOMAIN subjects # SubjectIds
     /\ IF existingSubject # {}
        THEN /\ resp' = Respond("postSubject", u, <<>>, 409, <<>>)
             /\ UNCHANGED subjects
        ELSE /\ subjects' = Insert(subjects, FreshId(subjects, SubjectIds), SubjectRow(u, name))
             /\ resp' = Respond("postSubject", u, <<>>, 201, <<>>)
     /\ UNCHANGED <<tasks, sessions, today, reqs>>

\* POST /sessions
PostSession(u, subjectId, sessionDate, duration) ==
  /\ DOMAIN sessions # SessionIds
  /\ IF SubjectCheck(subjectId, u) = {}
     THEN /\ resp' = Respond("postSession", u, <<>>, 404, <<>>)
          /\ UNCHANGED sessions
     ELSE /\ sessions' = Insert(sessions, FreshId(sessions, SessionIds),
                                SessionRow(u, subjectId, sessionDate, duration))
          /\ resp' = Respond("postSession", u, <<>>, 201, <<>>)
  /\ UNCHANGED <<subjects, tasks, today, reqs>>

\* The body of PUT /sessions/:id: every field optional.  `other` stands for
\* startTime and notes (present or not).
PutSessionBody(subjectId, sessionDate, duration, other) ==
  [subjectId |-> subjectId, sessionDate |-> sessionDate, duration |-> duration, other |-> other]

\* The SET list PUT /sessions/:id builds
PutSessionSet(row, b) ==
  LET r1 == IF b.subjectId # {} THEN [row EXCEPT !.subject_id = CHOOSE s \in b.subjectId : TRUE] ELSE row
      r2 == IF b.sessionDate # {} THEN [r1 EXCEPT !.session_date = CHOOSE d \in b.sessionDate : TRUE] ELSE r1
  IN IF b.duration # {} THEN [r2 EXCEPT !.duration = CHOOSE d \in b.duration : TRUE] ELSE r2

\* PUT /sessions/:id, the whole handler with no other request in between
PutSession(u, id, b) ==
  /\ IF {x \in DOMAIN sessions : x = id /\ sessions[x].user_id = u} = {}
     THEN /\ resp' = Respond("putSession", u, <<>>, 404, <<>>)
          /\ UNCHANGED sessions
     ELSE IF b.subjectId # {} /\ \A s \in b.subjectId : SubjectCheck(s, u) = {}
     THEN /\ resp' = Respond("putSession", u, <<>>, 404, <<>>)
          /\ UNCHANGED sessions
     ELSE IF b.subjectId = {} /\ b.sessionDate = {} /\ b.duration = {} /\ ~b.other
     THEN /\ resp' = Respond("putSession", u, <<>>, 400, <<>>)
          /\ UNCHANGED sessions
     ELSE /\ sessions' = [sessions EXCEPT ![id] = PutSessionSet(sessions[id], b)]
          /\ resp' = Respond("putSession", u, <<>>, 200, <<>>)
  /\ UNCHANGED <<subjects, tasks, today, reqs>>

-----------------------------------------------------------------------------
(* Task handlers *)

\* POST /tasks
PostTask(u, subjectId, dueDate, estimatedTime) ==
  /\ DOMAIN tasks # TaskIds
  /\ IF SubjectCheck(subjectId, u) = {}
     THEN /\ resp' = Respond("postTask", u, <<>>, 404, <<>>)
          /\ UNCHANGED tasks
     ELSE /\ tasks' = Insert(tasks, FreshId(tasks, TaskIds),
                             NewTaskRow(u, subjectId, dueDate, estimatedTime))
          /\ resp' = Respond("postTask", u, <<>>, 201, <<>>)
  /\ UNCHANGED <<subjects, sessions, today, reqs>>

\* The body of PUT /tasks/:id: every field optional.  `other` stands for
\* title, description, priority and dueTime (present or not).
PutBody(subjectId, dueDate, estimatedTime, completed, other) ==
  [subjectId |-> subjectId, dueDate |-> dueDate, estimatedTime |-> estimatedTime,
   completed |-> completed, other |-> other]

\* updates.length === 0
NoUpdates(b) ==
  b.subjectId = {} /\ b.dueDate = {} /\ b.estimatedTime = {} /\ b.completed = {} /\ ~b.other

\* PUT /tasks/:id without its `else if (!completed)` branch: completed_at is
\* stamped but never cleared
PutTaskSet_NoClear(row, b, existingCompleted, now) ==
  IF b.completed = {} THEN row
  ELSE LET completed == CHOOSE c \in b.completed : TRUE
           r4 == [row EXCEPT !.completed = PgBool(completed)]
       IN IF Truthy(completed) /\ ~existingCompleted
          THEN [r4 EXCEPT !.completed_at = {now}]
          ELSE r4

\* The SET list PUT /tasks/:id builds, applied to the row as it is when the
\* UPDATE runs; existingCompleted is the `completed` the handler read before.
PutTaskSet(row, b, existingCompleted, now) ==
  LET r1 == IF b.subjectId # {} THEN [row EXCEPT !.subject_id = CHOOSE s \in b.subjectId : TRUE] ELSE row
      r2 == IF b.dueDate # {} THEN [r1 EXCEPT !.due_date = CHOOSE d \in b.dueDate : TRUE] ELSE r1
      r3 == IF b.estimatedTime # {} THEN [r2 EXCEPT !.estimated_time = CHOOSE e \in b.estimatedTime : TRUE] ELSE r2
  IN IF b.completed = {} THEN r3
     ELSE LET completed == CHOOSE c \in b.completed : TRUE
              r4 == [r3 EXCEPT !.completed = PgBool(completed)]
          IN IF Truthy(completed) /\ ~existingCompleted
             THEN [r4 EXCEPT !.completed_at = {now}]
             ELSE IF ~Truthy(completed)
                  THEN [r4 EXCEPT !.completed_at = NULL]
                  ELSE r4

\* The UPDATE of PATCH /tasks/:id/complete
PatchCompleteSet(row, completed, now) ==
  [row EXCEPT !.completed = PgBool(completed),
              !.completed_at = IF Truthy(completed) THEN {now} ELSE NULL]

\* PUT /tasks/:id, the whole handler with no other request in between
PutTask(u, id, b) ==
  /\ IF ExistingTask(id, u) = {}
     THEN /\ resp' = Respond("putTask", u, <<>>, 404, <<>>)
          /\ UNCHANGED tasks
     ELSE IF b.subjectId # {} /\ \A s \in b.subjectId : SubjectCheck(s, u) = {}
     THEN /\ resp' = Respond("putTask", u, <<>>, 404, <<>>)
          /\ UNCHANGED tasks
     ELSE IF NoUpdates(b)
     THEN /\ resp' = Respond("putTask", u, <<>>, 400, <<>>)
          /\ UNCHANGED tasks
     ELSE /\ tasks' = [tasks EXCEPT ![id] = PutTaskSet(tasks[id], b, tasks[id].completed, today)]
          /\ resp' = Respond("putTask", u, <<>>, 200, <<>>)
  /\ UNCHANGED <<subjects, sessions, today, reqs>>

\* PATCH /tasks/:id/complete, the whole handler with no other request in between
PatchComplete(u, id, completed) ==
  /\ IF ExistingTask(id, u) = {}
     THEN /\ resp' = Respond("patchComplete", u, <<>>, 404, <<>>)
          /\ UNCHANGED tasks
     ELSE /\ tasks' = [tasks EXCEPT ![id] = PatchCompleteSet(tasks[id], completed, today)]
          /\ resp' = Respond("patchComplete", u, <<>>, 200, <<>>)
  /\ UNCHANGED <<subjects, sessions, today, reqs>>

-----------------------------------------------------------------------------
(* Task updates as the event loop runs them: every awaited query is a step  *)
(* of its own, and steps of other requests may run between two of them.     *)
(* reqs holds the requests in flight: what the handler has read so far and  *)
(* the query it issues next.                                                *)

Remove(table, id) == [i \in DOMAIN table \ {id} |-> table[i]]

\* PUT /tasks/:id, first query: SELECT id, completed FROM tasks ...
PutRead(r, u, id, b) ==
  /\ r \notin DOMAIN reqs
  /\ IF ExistingTask(id, u) = {}
     THEN /\ resp' = Respond("putTask", u, <<>>, 404, <<>>)
          /\ UNCHANGED reqs
     ELSE IF NoUpdates(b)
     THEN /\ resp' = Respond("putTask", u, <<>>, 400, <<>>)
          /\ UNCHANGED reqs
     ELSE /\ reqs' = Insert(reqs, r, [op |-> "putTask", user |-> u, id |-> id, body |-> b,
                                      existingCompleted |-> tasks[id].completed,
                                      pc |-> IF b.subjectId # {} THEN "subject" ELSE "update"])
          /\ UNCHANGED resp
  /\ UNCHANGED <<subjects, tasks, sessions, today>>

\* PUT /tasks/:id, the subject check when subjectId is given
PutCheckSubject(r) ==
  /\ r \in DOMAIN reqs /\ reqs[r].op = "putTask" /\ reqs[r].pc = "subject"
  /\ IF \A s \in reqs[r].body.subjectId : SubjectCheck(s, reqs[r].user) = {}
     THEN /\ resp' = Respond("putTask", reqs[r].user, <<>>, 404, <<>>)
          /\ reqs' = Remove(reqs, r)
     ELSE /\ reqs' = [reqs EXCEPT ![r].pc = "update"]
          /\ UNCHANGED resp
  /\ UNCHANGED <<subjects, tasks, sessions, today>>

\* The row an UPDATE ... WHERE id = $n AND user_id = $m finds (none when the
\* task was deleted since the handler read it)
UpdateTarget(r) == ExistingTask(reqs[r].id, reqs[r].user)

\* PUT /tasks/:id, the UPDATE and the answer.  With no row updated
\* result.rows[0] is undefined and reading task.id throws; a subject_id
\* that no longer exists violates the foreign key: both end in the catch.
PutUpdate(r) ==
  /\ r \in DOMAIN reqs /\ reqs[r].op = "putTask" /\ reqs[r].pc = "update"
  /\ IF \/ UpdateTarget(r) = {}
        \/ \E s \in reqs[r].body.subjectId : s \notin DOMAIN subjects
     THEN /\ resp' = Respond("putTask", reqs[r].user, <<>>, 500, <<>>)
          /\ UNCHANGED tasks
     ELSE /\ tasks' = [tasks EXCEPT ![reqs[r].id] =
                         PutTaskSet(tasks[reqs[r].id], reqs[r].body, reqs[r].existingCompleted, today)]
          /\ resp' = Respond("putTask", reqs[r].user, <<>>, 200, <<>>)
  /\ reqs' = Remove(reqs, r)
  /\ UNCHANGED <<subjects, sessions, today>>

\* PATCH /tasks/:id/complete, first query: SELECT id, completed FROM tasks ...
PatchRead(r, u, id, completed) ==
  /\ r \notin DOMAIN reqs
  /\ IF ExistingTask(id, u) = {}
     THEN /\ resp' = Respond("patchComplete", u, <<>>, 404, <<>>)
          /\ UNCHANGED reqs
     ELSE /\ reqs' = Insert(reqs, r, [op |-> "patchComplete", user |-> u, id |-> id,
                                      body |-> PutBody(NULL, NULL, NULL, {completed}, FALSE),
                                      existingCompleted |-> tasks[id].completed,
                                      pc |-> "update"])
          /\ UNCHANGED resp
  /\ UNCHANGED <<subjects, tasks, sessions, today>>

\* PATCH /tasks/:id/complete, the UPDATE and the answer
PatchUpdate(r) ==
  /\ r \in DOMAIN reqs /\ reqs[r].op = "patchComplete" /\ reqs[r].pc = "update"
  /\ IF UpdateTarget(r) = {}
     THEN /\ resp' = Respond("patchComplete", reqs[r].user, <<>>, 500, <<>>)
          /\ UNCHANGED tasks
     ELSE /\ tasks' = [tasks EXCEPT ![reqs[r].id] =
                         PatchCompleteSet(tasks[reqs[r].id],
                                          CHOOSE c \in reqs[r].body.completed : TRUE, today)]
          /\ resp' = Respond("patchComplete", reqs[r].user, <<>>, 200, <<>>)
  /\ reqs' = Remove(reqs, r)
  /\ UNCHANGED <<subjects, sessions, today>>

-----------------------------------------------------------------------------
(* Subject creation and renaming as the event loop runs them *)

\* No constraint on the table
UniqueViolation_NoConstraint(u, name, id) == FALSE

\* UNIQUE(user_id, name) rejects a row (the row `id` itself left aside)
\* whose user already has a subject of that name
UniqueViolation(u, name, id) ==
  \E s \in DOMAIN subjects \ id : subjects[s].user_id = u /\ subjects[s].name = name

\* POST /subjects, first query: SELECT id FROM subjects WHERE user_id = $1 AND name = $2
PostSubjectCheck(r, u, name) ==
  /\ r \notin DOMAIN reqs
  /\ DOMAIN subjects # SubjectIds
  /\ IF \E s \in DOMAIN subjects : subjects[s].user_id = u /\ subjects[s].name = name
     THEN /\ resp' = Respond("postSubject", u, <<>>, 409, <<>>)
          /\ UNCHANGED reqs
     ELSE /\ reqs' = Insert(reqs, r, [op |-> "postSubject", user |-> u, id |-> NULL,
                                      name |-> {name}, pc |-> "insert"])
          /\ UNCHANGED resp
  /\ UNCHANGED <<subjects, tasks, sessions, today>>

\* POST /subjects, the INSERT and the answer; a constraint violation is
\* thrown by the query and lands in the catch
PostSubjectInsert(r) ==
  /\ r \in DOMAIN reqs /\ reqs[r].op = "postSubject" /\ reqs[r].pc = "insert"
  /\ LET name == CHOOSE n \in reqs[r].name : TRUE
     IN IF UniqueViolation(reqs[r].user, name, {})
        THEN /\ resp' = Respond("postSubject", reqs[r].user, <<>>, 500, <<>>)
             /\ UNCHANGED subjects
        ELSE /\ DOMAIN subjects # SubjectIds
             /\ subjects' = Insert(subjects, FreshId(subjects, SubjectIds),
                                   SubjectRow(reqs[r].user, name))
             /\ resp' = Respond("postSubject", reqs[r].user, <<>>, 201, <<>>)
  /\ reqs' = Remove(reqs, r)
  /\ UNCHANGED <<tasks, sessions, today>>

\* PUT /subjects/:id, first query: SELECT id FROM subjects WHERE id = $1 AND
\* user_id = $2.  name is {} when the body has no name; color tells whether
\* it has a color.
PutSubjectRead(r, u, id, name, color) ==
  /\ r \notin DOMAIN reqs
  /\ IF SubjectCheck(id, u) = {}
     THEN /\ resp' = Respond("putSubject", u, <<>>, 404, <<>>)
          /\ UNCHANGED reqs
     ELSE IF name = {} /\ ~color
     THEN /\ resp' = Respond("putSubject", u, <<>>, 400, <<>>)
          /\ UNCHANGED reqs
     ELSE /\ reqs' = Insert(reqs, r, [op |-> "putSubject", user |-> u, id |-> {id}, name |-> name,
                                      pc |-> IF name # {} THEN "duplicate" ELSE "update"])
          /\ UNCHANGED resp
  /\ UNCHANGED <<subjects, tasks, sessions, today>>

\* PUT /subjects/:id, the duplicate check: SELECT id FROM subjects WHERE
\* user_id = $1 AND name = $2 AND id != $3
PutSubjectDuplicate(r) ==
  /\ r \in DOMAIN reqs /\ reqs[r].op = "putSubject" /\ reqs[r].pc = "duplicate"
  /\ IF \E s \in DOMAIN subjects \ reqs[r].id :
          subjects[s].user_id = reqs[r].user /\ subjects[s].name \in reqs[r].name
     THEN /\ resp' = Respond("putSubject", reqs[r].user, <<>>, 409, <<>>)
          /\ reqs' = Remove(reqs, r)
     ELSE /\ reqs' = [reqs EXCEPT ![r].pc = "update"]
          /\ UNCHANGED resp
  /\ UNCHANGED <<subjects, tasks, sessions, today>>

\* PUT /subjects/:id, the UPDATE and the answer.  A constraint violation is
\* thrown by the query; with no row updated result.rows[0] is undefined and
\* reading subject.id throws: both end in the catch.
PutSubjectUpdate(r) ==
  /\ r \in DOMAIN reqs /\ reqs[r].op = "putSubject" /\ reqs[r].pc = "update"
  /\ LET id == CHOOSE s \in reqs[r].id : TRUE
     IN IF \/ SubjectCheck(id, reqs[r].user) = {}
           \/ \E n \in reqs[r].name : UniqueViolation(reqs[r].user, n, {id})
        THEN /\ resp' = Respond("putSubject", reqs[r].user, <<>>, 500, <<>>)
             /\ UNCHANGED subjects
        ELSE /\ subjects' = IF reqs[r].name = {} THEN subjects
                            ELSE [subjects EXCEPT ![id].name = CHOOSE n \in reqs[r].name : TRUE]
             /\ resp' = Respond("putSubject", reqs[r].user, <<>>, 200, <<>>)
  /\ reqs' = Remove(reqs, r)
  /\ UNCHANGED <<tasks, sessions, today>>

-----------------------------------------------------------------------------
(* Deletes, and the creates and updates that race with them *)

\* A foreign key that lets the referring rows outlive the subject
Cascade_KeepsRows(table, gone) == table

\* ON DELETE CASCADE of subject_id: the rows of a table that refer to a
\* deleted subject go with it
Cascade(table, gone) ==
  [i \in {j \in DOMAIN table : table[j].subject_id \notin gone} |-> table[i]]

\* SELECT id FROM study_sessions WHERE id = $1 AND user_id = $2
ExistingSession(id, u) ==
  {x \in DOMAIN sessions : x = id /\ sessions[x].user_id = u}

\* SELECT COUNT(*) as count FROM tasks WHERE subject_id = $1
TasksCheck(id) == Cardinality({t \in DOMAIN tasks : tasks[t].subject_id = id})

\* DELETE /tasks/:id
DeleteTask(u, id) ==
  /\ IF ExistingTask(id, u) = {}
     THEN /\ resp' = Respond("deleteTask", u, <<>>, 404, <<>>)
          /\ UNCHANGED tasks
     ELSE /\ tasks' = Remove(tasks, id)
          /\ resp' = Respond("deleteTask", u, <<>>, 200, <<>>)
  /\ UNCHANGED <<subjects, sessions, today, reqs>>

\* DELETE /sessions/:id
DeleteSession(u, id) ==
  /\ IF ExistingSession(id, u) = {}
     THEN /\ resp' = Respond("deleteSession", u, <<>>, 404, <<>>)
          /\ UNCHANGED sessions
     ELSE /\ sessions' = Remove(sessions, id)
          /\ resp' = Respond("deleteSession", u, <<>>, 200, <<>>)
  /\ UNCHANGED <<subjects, tasks, today, reqs>>

\* DELETE /subjects/:id, the whole handler with no other request in between
DeleteSubject(u, id) ==
  /\ IF SubjectCheck(id, u) = {}
     THEN /\ resp' = Respond("deleteSubject", u, <<>>, 404, <<>>)
          /\ UNCHANGED <<subjects, tasks, sessions>>
     ELSE IF TasksCheck(id) > 0
     THEN /\ resp' = Respond("deleteSubject", u, <<>>, 409, <<>>)
          /\ UNCHANGED <<subjects, tasks, sessions>>
     ELSE /\ subjects' = Remove(subjects, id)
          /\ tasks' = Cascade(tasks, {id})
          /\ sessions' = Cascade(sessions, {id})
          /\ resp' = Respond("deleteSubject", u, <<>>, 200, <<>>)
  /\ UNCHANGED <<today, reqs>>

\* PUT /subjects/:id, the whole handler with no other request in between.
\* name is {} when the body has no name; color tells whether it has a color.
PutSubject(u, id, name, color) ==
  /\ IF SubjectCheck(id, u) = {}
     THEN /\ resp' = Respond("putSubject", u, <<>>, 404, <<>>)
          /\ UNCHANGED subjects
     ELSE IF \E s \in DOMAIN subjects \ {id} :
               subjects[s].user_id = u /\ subjects[s].name \in name
     THEN /\ resp' = Respond("putSubject", u, <<>>, 409, <<>>)
          /\ UNCHANGED subjects
     ELSE IF name = {} /\ ~color
     THEN /\ resp' = Respond("putSubject", u, <<>>, 400, <<>>)
          /\ UNCHANGED subjects
     ELSE /\ subjects' = IF name = {} THEN subjects
                         ELSE [subjects EXCEPT ![id].name = CHOOSE n \in name : TRUE]
          /\ resp' = Respond("putSubject", u, <<>>, 200, <<>>)
  /\ UNCHANGED <<tasks, sessions, today, reqs>>

\* The subject ids the requests in flight have read or been given
SubjectsNamed(q) ==
  CASE q.op \in {"putTask", "putSession"} -> q.body.subjectId
    [] q.op \in {"postTask", "postSession", "deleteSubject"} -> q.subjectId
    [] OTHER -> {}

HeldSubjectIds == UNION {SubjectsNamed(reqs[r]) : r \in DOMAIN reqs}

\* The task ids the requests in flight have read
HeldTaskIds == {reqs[r].id : r \in {q \in DOMAIN reqs : reqs[q].op \in {"putTask", "patchComplete"}}}

\* The study-session ids the requests in flight have read
HeldSessionIds == {reqs[r].id : r \in {q \in DOMAIN reqs : reqs[q].op = "putSession"}}

\* uuid_generate_v4() while requests are in flight: an id that no row has
\* and that no request can have been given before the row exists
NewIds(table, ids, held) == ids \ (DOMAIN table \cup held)
NewId(table, ids, held) ==
  CHOOSE i \in NewIds(table, ids, held) : \A j \in NewIds(table, ids, held) : i <= j

\* POST /subjects while other requests are in flight
PostSubjectNew(u, name) ==
  /\ NewIds(subjects, SubjectIds, HeldSubjectIds) # {}
  /\ IF \E s \in DOMAIN subjects : subjects[s].user_id = u /\ subjects[s].name = name
     THEN /\ resp' = Respond("postSubject", u, <<>>, 409, <<>>)
          /\ UNCHANGED subjects
     ELSE /\ subjects' = Insert(subjects, NewId(subjects, SubjectIds, HeldSubjectIds),
                                SubjectRow(u, name))
          /\ resp' = Respond("postSubject", u, <<>>, 201, <<>>)
  /\ UNCHANGED <<tasks, sessions, today, reqs>>

\* POST /tasks, first query: SELECT id FROM subjects WHERE id = $1 AND user_id = $2
PostTaskCheck(r, u, subjectId, dueDate, estimatedTime) ==
  /\ r \notin DOMAIN reqs
  /\ NewIds(tasks, TaskIds, HeldTaskIds) # {}
  /\ IF SubjectCheck(subjectId, u) = {}
     THEN /\ resp' = Respond("postTask", u, <<>>, 404, <<>>)
          /\ UNCHANGED reqs
     ELSE /\ reqs' = Insert(reqs, r, [op |-> "postTask", user |-> u, subjectId |-> {subjectId},
                                      row |-> NewTaskRow(u, subjectId, dueDate, estimatedTime),
                                      pc |-> "insert"])
          /\ UNCHANGED resp
  /\ UNCHANGED <<subjects, tasks, sessions, today>>

\* POST /tasks, the INSERT and the answer.  subject_id REFERENCES
\* subjects(id): with the subject gone the INSERT throws, into the catch.
PostTaskInsert(r) ==
  /\ r \in DOMAIN reqs /\ reqs[r].op = "postTask" /\ reqs[r].pc = "insert"
  /\ IF reqs[r].row.subject_id \notin DOMAIN subjects
     THEN /\ resp' = Respond("postTask", reqs[r].user, <<>>, 500, <<>>)
          /\ UNCHANGED tasks
     ELSE /\ NewIds(tasks, TaskIds, HeldTaskIds) # {}
          /\ tasks' = Insert(tasks, NewId(tasks, TaskIds, HeldTaskIds), reqs[r].row)
          /\ resp' = Respond("postTask", reqs[r].user, <<>>, 201, <<>>)
  /\ reqs' = Remove(reqs, r)
  /\ UNCHANGED <<subjects, sessions, today>>

\* POST /sessions, first query: SELECT id FROM subjects WHERE id = $1 AND user_id = $2
PostSessionCheck(r, u, subjectId, sessionDate, duration) ==
  /\ r \notin DOMAIN reqs
  /\ NewIds(sessions, SessionIds, HeldSessionIds) # {}
  /\ IF SubjectCheck(subjectId, u) = {}
     THEN /\ resp' = Respond("postSession", u, <<>>, 404, <<>>)
          /\ UNCHANGED reqs
     ELSE /\ reqs' = Insert(reqs, r, [op |-> "postSession", user |-> u, subjectId |-> {subjectId},
                                      row |-> SessionRow(u, subjectId, sessionDate, duration),
                                      pc |-> "insert"])
          /\ UNCHANGED resp
  /\ UNCHANGED <<subjects, tasks, sessions, today>>

\* POST /sessions, the INSERT and the answer, with the same foreign key
PostSessionInsert(r) ==
  /\ r \in DOMAIN reqs /\ reqs[r].op = "postSession" /\ reqs[r].pc = "insert"
  /\ IF reqs[r].row.subject_id \notin DOMAIN subjects
     THEN /\ resp' = Respond("postSession", reqs[r].user, <<>>, 500, <<>>)
          /\ UNCHANGED sessions
     ELSE /\ NewIds(sessions, SessionIds, HeldSessionIds) # {}
          /\ sessions' = Insert(sessions, NewId(sessions, SessionIds, HeldSessionIds), reqs[r].row)
          /\ resp' = Respond("postSession", reqs[r].user, <<>>, 201, <<>>)
  /\ reqs' = Remove(reqs, r)
  /\ UNCHANGED <<subjects, tasks, today>>

\* PUT /sessions/:id, first query: SELECT id FROM study_sessions ...
PutSessionRead(r, u, id, b) ==
  /\ r \notin DOMAIN reqs
  /\ IF ExistingSession(id, u) = {}
     THEN /\ resp' = Respond("putSession", u, <<>>, 404, <<>>)
          /\ UNCHANGED reqs
     ELSE IF b.subjectId = {} /\ b.sessionDate = {} /\ b.duration = {} /\ ~b.other
     THEN /\ resp' = Respond("putSession", u, <<>>, 400, <<>>)
          /\ UNCHANGED reqs
     ELSE /\ reqs' = Insert(reqs, r, [op |-> "putSession", user |-> u, id |-> id, body |-> b,
                                      pc |-> IF b.subjectId # {} THEN "subject" ELSE "update"])
          /\ UNCHANGED resp
  /\ UNCHANGED <<subjects, tasks, sessions, today>>

\* PUT /sessions/:id, the subject check when subjectId is given
PutSessionCheckSubject(r) ==
  /\ r \in DOMAIN reqs /\ reqs[r].op = "putSession" /\ reqs[r].pc = "subject"
  /\ IF \A s \in reqs[r].body.subjectId : SubjectCheck(s, reqs[r].user) = {}
     THEN /\ resp' = Respond("putSession", reqs[r].user, <<>>, 404, <<>>)
          /\ reqs' = Remove(reqs, r)
     ELSE /\ reqs' = [reqs EXCEPT ![r].pc = "update"]
          /\ UNCHANGED resp
  /\ UNCHANGED <<subjects, tasks, sessions, today>>

\* PUT /sessions/:id, the UPDATE and the answer.  With no row updated
\* result.rows[0] is undefined and reading session.id throws; a subject_id
\* that no longer exists violates the foreign key: both end in the catch.
PutSessionUpdate(r) ==
  /\ r \in DOMAIN reqs /\ reqs[r].op = "putSession" /\ reqs[r].pc = "update"
  /\ IF \/ ExistingSession(reqs[r].id, reqs[r].user) = {}
        \/ \E s \in reqs[r].body.subjectId : s \notin DOMAIN subjects
     THEN /\ resp' = Respond("putSession", reqs[r].user, <<>>, 500, <<>>)
          /\ UNCHANGED sessions
     ELSE /\ sessions' = [sessions EXCEPT ![reqs[r].id] = PutSessionSet(sessions[reqs[r].id], reqs[r].body)]
          /\ resp' = Respond("putSession", reqs[r].user, <<>>, 200, <<>>)
  /\ reqs' = Remove(reqs, r)
  /\ UNCHANGED <<subjects, tasks, today>>

\* DELETE /subjects/:id, first query: SELECT id FROM subjects WHERE id = $1
\* AND user_id = $2
DeleteSubjectRead(r, u, id) ==
  /\ r \notin DOMAIN reqs
  /\ IF SubjectCheck(id, u) = {}
     THEN /\ resp' = Respond("deleteSubject", u, <<>>, 404, <<>>)
          /\ UNCHANGED reqs
     ELSE /\ reqs' = Insert(reqs, r, [op |-> "deleteSubject", user |-> u, subjectId |-> {id},
                                      pc |-> "tasks"])
          /\ UNCHANGED resp
  /\ UNCHANGED <<subjects, tasks, sessions, today>>

\* DELETE /subjects/:id, second query: the count of the subject's tasks
DeleteSubjectTasksCheck(r) ==
  /\ r \in DOMAIN reqs /\ reqs[r].op = "deleteSubject" /\ reqs[r].pc = "tasks"
  /\ IF \E id \in reqs[r].subjectId : TasksCheck(id) > 0
     THEN /\ resp' = Respond("deleteSubject", reqs[r].user, <<>>, 409, <<>>)
          /\ reqs' = Remove(reqs, r)
     ELSE /\ reqs' = [reqs EXCEPT ![r].pc = "delete"]
          /\ UNCHANGED resp
  /\ UNCHANGED <<subjects, tasks, sessions, today>>

\* DELETE /subjects/:id, the DELETE FROM subjects WHERE id = $1 AND
\* user_id = $2 and the answer; the tasks and study sessions that refer to
\* the subject by then are deleted by their foreign keys' ON DELETE CASCADE
DeleteSubjectDelete(r) ==
  /\ r \in DOMAIN reqs /\ reqs[r].op = "deleteSubject" /\ reqs[r].pc = "delete"
  /\ LET gone == {id \in reqs[r].subjectId : SubjectCheck(id, reqs[r].user) # {}}
     IN /\ subjects' = [s \in DOMAIN subjects \ gone |-> subjects[s]]
        /\ tasks' = Cascade(tasks, gone)
        /\ sessions' = Cascade(sessions, gone)
  /\ resp' = Respond("deleteSubject", reqs[r].user, <<>>, 200, <<>>)
  /\ reqs' = Remove(reqs, r)
  /\ UNCHANGED today

\* The calendar day of the database and of the server advances
Tick ==
  /\ today < MaxDay
  /\ today' = today + 1
  /\ resp' = Idle
  /\ UNCHANGED <<subjects, tasks, sessions, reqs>>

-----------------------------------------------------------------------------
(* GET /progress/stats *)

UserTasks(u) == {t \in DOMAIN tasks : tasks[t].user_id = u}
UserSessions(u) == {x \in DOMAIN sessions : sessions[x].user_id = u}
Duration == [x \in DOMAIN sessions |-> sessions[x].duration]

\* The count query without its WHERE user_id = $1
TaskStats_AllUsers(u) ==
  [total_tasks |-> Cardinality(DOMAIN tasks),
   completed_tasks |-> Cardinality({t \in DOMAIN tasks : tasks[t].completed = TRUE}),
   pending_tasks |-> Cardinality({t \in DOMAIN tasks : tasks[t].completed = FALSE})]

\* COUNT(*), COUNT(CASE WHEN completed = true ...), COUNT(CASE WHEN completed = false ...)
TaskStats(u) ==
  [total_tasks |-> Cardinality(UserTasks(u)),
   completed_tasks |-> Cardinality({t \in UserTasks(u) : tasks[t].completed = TRUE}),
   pending_tasks |-> Cardinality({t \in UserTasks(u) : tasks[t].completed = FALSE})]

\* COALESCE(SUM(duration), 0)
TotalStudyTime(u) == SumOver(Duration, UserSessions(u))

\* daily_completions: one row per DATE(completed_at) of the user's completed tasks
DailyCompletions(u) ==
  UNION {tasks[t].completed_at :
           t \in {x \in UserTasks(u) : tasks[x].completed = TRUE /\ tasks[x].completed_at # NULL}}

\* ROW_NUMBER() OVER (ORDER BY completion_date DESC)
RowNum(d, D) == Cardinality({e \in D : e >= d})

\* The walk anchored at today: CURRENT_DATE - INTERVAL '1 day' * (row_num - 1)
ExpectedDate_FromToday(d, D) == today - 1 * (RowNum(d, D) - 1)

\* completion_date - INTERVAL '1 day' * (row_num - 1)
ExpectedDate(d, D) == d - 1 * (RowNum(d, D) - 1)

\* SELECT COUNT(*) FROM streak_calculation WHERE completion_date = expected_date
CurrentStreak(u) ==
  LET D == DailyCompletions(u)
  IN Cardinality({d \in D : d = ExpectedDate(d, D)})

\* The JSON built from the rows of the three queries
StatsJson(stats, total_study_time, current_streak) ==
  LET totalTasks == stats.total_tasks
      completedTasks == stats.completed_tasks
  IN [totalTasks |-> totalTasks,
      completedTasks |-> completedTasks,
      pendingTasks |-> stats.pending_tasks,
      totalStudyTime |-> total_study_time,
      productivityScore |-> IF totalTasks > 0 THEN RoundPct(completedTasks, totalTasks) ELSE 0,
      currentStreak |-> current_streak]

StatsBody(u) == StatsJson(TaskStats(u), TotalStudyTime(u), CurrentStreak(u))

\* A handler that archives what it has counted: the user's completed tasks
\* are deleted after the answer is built
GetStats_Archiving(u) ==
  /\ resp' = Respond("stats", u, <<>>, 200, StatsBody(u))
  /\ tasks' = [t \in {x \in DOMAIN tasks : ~(tasks[x].user_id = u /\ tasks[x].completed)} |-> tasks[t]]
  /\ UNCHANGED <<subjects, sessions, today, reqs>>

\* GET /progress/stats, its three queries with no write in between
GetStats(u) ==
  /\ resp' = Respond("stats", u, <<>>, 200, StatsBody(u))
  /\ UNCHANGED <<subjects, tasks, sessions, today, reqs>>

-----------------------------------------------------------------------------
(* GET /progress/subjects *)

\* A row of subjects s LEFT JOIN tasks t LEFT JOIN study_sessions ss for one
\* subject: t and ss are {} (all columns NULL) when the side has no match.
OrNull(S) == IF S = {} THEN {NULL} ELSE {{x} : x \in S}

SubjectTasks(s) == {t \in DOMAIN tasks : tasks[t].subject_id = s}
SubjectSessions(s) == {x \in DOMAIN sessions : sessions[x].subject_id = s}

JoinRows(s) ==
  {[t |-> t, ss |-> ss] : t \in OrNull(SubjectTasks(s)), ss \in OrNull(SubjectSessions(s))}

\* The average taken as SUM(t.estimated_time) / COUNT(DISTINCT t.id): the sum
\* runs over the joined rows, the count over the tasks
SubjectAggregates_DistinctCount(s) ==
  LET R == JoinRows(s)
      withTask == {r \in R : r.t # NULL}
      TaskOf(r) == tasks[CHOOSE t \in r.t : TRUE]
      SessionDuration == [r \in R |-> IF r.ss = NULL THEN 0
                                      ELSE sessions[CHOOSE x \in r.ss : TRUE].duration]
      EstimatedTime == [r \in withTask |-> TaskOf(r).estimated_time]
  IN [total_tasks |-> Cardinality(withTask),
      completed_tasks |-> Cardinality({r \in withTask : TaskOf(r).completed = TRUE}),
      total_study_time |-> SumOver(SessionDuration, R),
      avg_sum |-> SumOver(EstimatedTime, withTask),
      avg_count |-> Max(Cardinality(SubjectTasks(s)), 1)]

\* The aggregates of one GROUP BY s.id group
SubjectAggregates(s) ==
  LET R == JoinRows(s)
      withTask == {r \in R : r.t # NULL}
      TaskOf(r) == tasks[CHOOSE t \in r.t : TRUE]
      \* SUM skips the rows whose ss.duration is NULL
      SessionDuration == [r \in R |-> IF r.ss = NULL THEN 0
                                      ELSE sessions[CHOOSE x \in r.ss : TRUE].duration]
      EstimatedTime == [r \in withTask |-> TaskOf(r).estimated_time]
  IN [total_tasks |-> Cardinality(withTask),
      completed_tasks |-> Cardinality({r \in withTask : TaskOf(r).completed = TRUE}),
      total_study_time |-> SumOver(SessionDuration, R),
      \* AVG(t.estimated_time) as the fraction sum / count (0 / 1 when NULL)
      avg_sum |-> SumOver(EstimatedTime, withTask),
      avg_count |-> Max(Cardinality(withTask), 1)]

\* Math.round(x / y) for x >= 0, y > 0
RoundDiv(x, y) == (2 * x + y) \div (2 * y)

SubjectEntry(s) ==
  LET subject == SubjectAggregates(s)
  IN [id |-> s,
      name |-> subjects[s].name,
      totalTasks |-> subject.total_tasks,
      completedTasks |-> subject.completed_tasks,
      totalStudyTime |-> subject.total_study_time,
      avgEstimatedTime |-> RoundDiv(subject.avg_sum, subject.avg_count),
      completionRate |-> IF subject.total_tasks > 0
                         THEN RoundPct(subject.completed_tasks, subject.total_tasks)
                         ELSE 0]

\* ORDER BY s.name: names in their collation order
NameOrder == <<"Math", "Physics">>
NameRank(n) == CHOOSE i \in DOMAIN NameOrder : NameOrder[i] = n

RECURSIVE OrderByName(_)
OrderByName(S) ==
  IF S = {} THEN <<>>
  ELSE LET first == CHOOSE s \in S : \A o \in S :
                       \/ NameRank(subjects[s].name) < NameRank(subjects[o].name)
                       \/ (subjects[s].name = subjects[o].name /\ s <= o)
       IN <<SubjectEntry(first)>> \o OrderByName(S \ {first})

\* INNER JOIN tasks instead of LEFT JOIN: a subject without task has no row
SubjectsBody_WithTasksOnly(u) ==
  OrderByName({s \in DOMAIN subjects : subjects[s].user_id = u /\ SubjectTasks(s) # {}})

SubjectsBody(u) == OrderByName({s \in DOMAIN subjects : subjects[s].user_id = u})

GetSubjects(u) ==
  /\ resp' = Respond("subjects", u, <<>>, 200, SubjectsBody(u))
  /\ UNCHANGED <<subjects, tasks, sessions, today, reqs>>

-----------------------------------------------------------------------------
(* GET /progress/weekly *)

WeeksMin == 1
WeeksMax == 12
WeeksDefault == 4
DaysPerWeek == 7

\* date_trunc('week', d): the Monday of d's week (day 0 is a Monday)
DateTruncWeek(d) == d - (d % DaysPerWeek)

\* A series that counts down when a > b
GenerateSeries_EitherDirection(a, b) ==
  IF a <= b THEN [i \in 1..(b - a + 1) |-> a + i - 1]
  ELSE [i \in 1..(a - b + 1) |-> a - i + 1]

\* generate_series(a, b) in ascending order
RECURSIVE GenerateSeries(_, _)
GenerateSeries(a, b) == IF a > b THEN <<>> ELSE <<a>> \o GenerateSeries(a + 1, b)

\* week_series with generate_series(1, $2): the current week is skipped
WeekSeries_FromOne(weeks) ==
  [i \in 1..weeks |-> DateTruncWeek(today - DaysPerWeek * i)]

\* week_series: date_trunc('week', CURRENT_DATE - INTERVAL '1 week' * k), k = 0..weeks-1;
\* the k-th element is the k-th most recent, which is ORDER BY ws.week_start DESC
WeekSeries(weeks) ==
  LET ks == GenerateSeries(0, weeks - 1)
  IN [i \in DOMAIN ks |-> DateTruncWeek(today - DaysPerWeek * ks[i])]

\* A lower bound one week too late: CURRENT_DATE - INTERVAL '1 week' * ($2 - 1)
WeeklyLowerBound_Tight(weeks) == today - DaysPerWeek * (weeks - 1)

\* due_date >= CURRENT_DATE - INTERVAL '1 week' * $2
WeeklyLowerBound(weeks) == today - DaysPerWeek * weeks

\* The rows of weekly_tasks / weekly_study_time behind one GROUP BY week
WeeklyTasks(u, weeks, weekStart) ==
  {t \in UserTasks(u) : /\ tasks[t].due_date >= WeeklyLowerBound(weeks)
                        /\ DateTruncWeek(tasks[t].due_date) = weekStart}

WeeklyStudyTime(u, weeks, weekStart) ==
  {x \in UserSessions(u) : /\ sessions[x].session_date >= WeeklyLowerBound(weeks)
                           /\ DateTruncWeek(sessions[x].session_date) = weekStart}

\* The counts of one row of the final SELECT (the COALESCEs) as the JSON
\* mapping reports them
RollupCounts(T, X) ==
  LET total_tasks == Cardinality(T)
      completed_tasks == Cardinality({t \in T : tasks[t].completed = TRUE})
  IN [totalTasks |-> total_tasks,
      completedTasks |-> completed_tasks,
      studyTime |-> SumOver(Duration, X),
      completionRate |-> IF total_tasks > 0 THEN RoundPct(completed_tasks, total_tasks) ELSE 0]

WeeklyBody(u, weeks) ==
  LET ws == WeekSeries(weeks)
  IN [i \in DOMAIN ws |->
        [weekStart |-> ws[i]] @@
        RollupCounts(WeeklyTasks(u, weeks, ws[i]), WeeklyStudyTime(u, weeks, ws[i]))]

\* The validator accepts 0..WeeksMax
WeeksInvalid_ZeroAllowed(weeksParam) == \E w \in weeksParam : w < 0 \/ w > WeeksMax

\* queryValidator('weeks').optional().isInt({ min: 1, max: 12 }) fails
WeeksInvalid(weeksParam) == \E w \in weeksParam : w < WeeksMin \/ w > WeeksMax

\* const weeks = parseInt(req.query.weeks) || 4
WeeksOrDefault(weeksParam) ==
  IF weeksParam = {} \/ weeksParam = {0} THEN WeeksDefault ELSE CHOOSE w \in weeksParam : TRUE

\* GET /progress/weekly?weeks=: weeksParam is {} when the parameter is omitted
GetWeekly(u, weeksParam) ==
  /\ IF WeeksInvalid(weeksParam)
     THEN resp' = Respond("weekly", u, weeksParam, 400, <<>>)
     ELSE resp' = Respond("weekly", u, weeksParam, 200, WeeklyBody(u, WeeksOrDefault(weeksParam)))
  /\ UNCHANGED <<subjects, tasks, sessions, today, reqs>>

-----------------------------------------------------------------------------
(* GET /progress/daily *)

DefaultWindowDays == 30

\* req.query.start_date || (now - 30 days), req.query.end_date || today
StartDate(start_date) ==
  IF start_date = {} THEN today - DefaultWindowDays ELSE CHOOSE d \in start_date : TRUE
EndDate(end_date) == IF end_date = {} THEN today ELSE CHOOSE d \in end_date : TRUE

\* daily_tasks without its WHERE user_id = $1
DailyTasks_AllUsers(u, startDate, endDate, date) ==
  {t \in DOMAIN tasks : /\ startDate <= tasks[t].due_date /\ tasks[t].due_date <= endDate
                        /\ tasks[t].due_date = date}

\* due_date BETWEEN $2 AND $3 ... GROUP BY due_date, joined ON ds.date = dt.due_date
DailyTasks(u, startDate, endDate, date) ==
  {t \in UserTasks(u) : /\ startDate <= tasks[t].due_date /\ tasks[t].due_date <= endDate
                        /\ tasks[t].due_date = date}

DailyStudyTime(u, startDate, endDate, date) ==
  {x \in UserSessions(u) : /\ startDate <= sessions[x].session_date
                           /\ sessions[x].session_date <= endDate
                           /\ sessions[x].session_date = date}

DailyBody(u, startDate, endDate) ==
  LET ds == GenerateSeries(startDate, endDate)
  IN [i \in DOMAIN ds |->
        [date |-> ds[i]] @@
        RollupCounts(DailyTasks(u, startDate, endDate, ds[i]),
                     DailyStudyTime(u, startDate, endDate, ds[i]))]

GetDaily(u, start_date, end_date) ==
  /\ resp' = Respond("daily", u, [start_date |-> start_date, end_date |-> end_date], 200,
                   DailyBody(u, StartDate(start_date), EndDate(end_date)))
  /\ UNCHANGED <<subjects, tasks, sessions, today, reqs>>

-----------------------------------------------------------------------------
(* The aggregation handlers as the event loop runs them.  A handler issues  *)
(* a query and is suspended at its await; the query settles, with its rows  *)
(* or with an error; the handler then resumes after the await, or in its    *)
(* catch block.  reqs holds a request from its first query to its answer:   *)
(* pc names the query issued last, outcome how it settled, rows the results *)
(* of the queries that succeeded so far.                                    *)

AggRequest(op, u, query, pc) ==
  [op |-> op, user |-> u, query |-> query, pc |-> pc, outcome |-> "pending", rows |-> <<>>]

\* GET /progress/stats up to its first await
StatsBegin(r, u) ==
  /\ r \notin DOMAIN reqs
  /\ reqs' = Insert(reqs, r, AggRequest("stats", u, <<>>, "taskStats"))
  /\ UNCHANGED <<subjects, tasks, sessions, today, resp>>

\* GET /progress/weekly up to its await: the validation result is checked
\* before the query is built
WeeklyBegin(r, u, weeksParam) ==
  /\ r \notin DOMAIN reqs
  /\ IF WeeksInvalid(weeksParam)
     THEN /\ resp' = Respond("weekly", u, weeksParam, 400, <<>>)
          /\ UNCHANGED reqs
     ELSE /\ reqs' = Insert(reqs, r, AggRequest("weekly", u, weeksParam, "weekly"))
          /\ UNCHANGED resp
  /\ UNCHANGED <<subjects, tasks, sessions, today>>

\* GET /progress/subjects up to its await
SubjectsBegin(r, u) ==
  /\ r \notin DOMAIN reqs
  /\ reqs' = Insert(reqs, r, AggRequest("subjects", u, <<>>, "subjects"))
  /\ UNCHANGED <<subjects, tasks, sessions, today, resp>>

\* GET /progress/daily up to its await
DailyBegin(r, u, start_date, end_date) ==
  /\ r \notin DOMAIN reqs
  /\ reqs' = Insert(reqs, r, AggRequest("daily", u,
                                       [start_date |-> start_date, end_date |-> end_date], "daily"))
  /\ UNCHANGED <<subjects, tasks, sessions, today, resp>>

\* What the query a request waits for returns when it runs now
QueryResult(q) ==
  CASE q.pc = "taskStats" -> TaskStats(q.user)
    [] q.pc = "studyTime" -> TotalStudyTime(q.user)
    [] q.pc = "streak" -> CurrentStreak(q.user)
    [] q.pc = "weekly" -> WeeklyBody(q.user, WeeksOrDefault(q.query))
    [] q.pc = "subjects" -> SubjectsBody(q.user)
    [] q.pc = "daily" -> DailyBody(q.user, StartDate(q.query.start_date), EndDate(q.query.end_date))

\* The pending query of request r runs and settles: with its rows, or
\* rejected (connection lost, statement error, pool exhausted)
QuerySettles(r, ok) ==
  /\ r \in DOMAIN reqs /\ reqs[r].op \in {"stats", "weekly", "subjects", "daily"}
  /\ reqs[r].outcome = "pending"
  /\ reqs' = IF ok
             THEN [reqs EXCEPT ![r].outcome = "ok",
                               ![r].rows = Append(reqs[r].rows, QueryResult(reqs[r]))]
             ELSE [reqs EXCEPT ![r].outcome = "error"]
  /\ UNCHANGED <<subjects, tasks, sessions, today, resp>>

\* The catch block answers with what was gathered before the failure
HandlerResumes_PartialAnswer(r) ==
  /\ r \in DOMAIN reqs /\ reqs[r].op \in {"stats", "weekly", "subjects", "daily"}
  /\ reqs[r].outcome # "pending"
  /\ LET q == reqs[r]
     IN IF q.outcome = "error"
        THEN /\ resp' = Respond(q.op, q.user, q.query, IF q.rows = <<>> THEN 500 ELSE 200, q.rows)
             /\ reqs' = Remove(reqs, r)
        ELSE IF q.pc = "taskStats"
        THEN /\ reqs' = [reqs EXCEPT ![r].pc = "studyTime", ![r].outcome = "pending"]
             /\ UNCHANGED resp
        ELSE IF q.pc = "studyTime"
        THEN /\ reqs' = [reqs EXCEPT ![r].pc = "streak", ![r].outcome = "pending"]
             /\ UNCHANGED resp
        ELSE /\ resp' = Respond(q.op, q.user, q.query, 200,
                               IF q.op = "stats" THEN StatsJson(q.rows[1], q.rows[2], q.rows[3])
                               ELSE q.rows[1])
             /\ reqs' = Remove(reqs, r)
  /\ UNCHANGED <<subjects, tasks, sessions, today>>

\* The handler of request r resumes where it awaited: after a rejected
\* query in its catch block (500, nothing else), after the first and the
\* second query of /stats with the next query, else with res.json
HandlerResumes(r) ==
  /\ r \in DOMAIN reqs /\ reqs[r].op \in {"stats", "weekly", "subjects", "daily"}
  /\ reqs[r].outcome # "pending"
  /\ LET q == reqs[r]
     IN IF q.outcome = "error"
        THEN /\ resp' = Respond(q.op, q.user, q.query, 500, <<>>)
             /\ reqs' = Remove(reqs, r)
        ELSE IF q.pc = "taskStats"
        THEN /\ reqs' = [reqs EXCEPT ![r].pc = "studyTime", ![r].outcome = "pending"]
             /\ UNCHANGED resp
        ELSE IF q.pc = "studyTime"
        THEN /\ reqs' = [reqs EXCEPT ![r].pc = "streak", ![r].outcome = "pending"]
             /\ UNCHANGED resp
        ELSE /\ resp' = Respond(q.op, q.user, q.query, 200,
                               IF q.op = "stats" THEN StatsJson(q.rows[1], q.rows[2], q.rows[3])
                               ELSE q.rows[1])
             /\ reqs' = Remove(reqs, r)
  /\ UNCHANGED <<subjects, tasks, sessions, today>>

-----------------------------------------------------------------------------
(* Specifications *)

\* The store after the migration: no row in any table
Init ==
  /\ subjects = <<>>
  /\ tasks = <<>>
  /\ sessions = <<>>
  /\ today = 0
  /\ resp = Idle
  /\ reqs = <<>>

Optional(S) == {NULL} \cup {{x} : x \in S}

JsonBooleans == {"b:true", "b:false"}
Durations == {25, 50}

\* Sequential requests of two users, each with one subject: tasks and
\* sessions are created, tasks are updated and completed on successive days,
\* and the overall statistics are read.
Next ==
  \/ \E u \in Users : PostSubject(u, "Math")
  \/ \E u \in Users, s \in SubjectIds : PostTask(u, s, 0, 30)
  \/ \E u \in Users, s \in SubjectIds, d \in Durations : PostSession(u, s, 0, d)
  \/ \E u \in Users, id \in TaskIds, c \in Optional(JsonBooleans), o \in BOOLEAN :
        PutTask(u, id, PutBody(NULL, NULL, NULL, c, o))
  \/ \E u \in Users, id \in TaskIds, c \in JsonBooleans : PatchComplete(u, id, c)
  \/ Tick
  \/ \E u \in Users : GetStats(u)

Spec == Init /\ [][Next]_vars

Estimates == {30, 45}

\* Sequential requests of two users with up to two subjects between them:
\* tasks and sessions are attached to the subjects, tasks are completed and
\* moved to another subject, and the per-subject rollup is read.
NextSubjects ==
  \/ \E u \in Users, name \in {"Math", "Physics"} : PostSubject(u, name)
  \/ \E u \in Users, s \in SubjectIds, e \in Estimates : PostTask(u, s, 0, e)
  \/ \E u \in Users, s \in SubjectIds, d \in Durations : PostSession(u, s, 0, d)
  \/ \E u \in Users, id \in TaskIds, s \in SubjectIds :
        PutTask(u, id, PutBody({s}, NULL, NULL, NULL, FALSE))
  \/ \E u \in Users, id \in TaskIds, c \in JsonBooleans : PatchComplete(u, id, c)
  \/ \E u \in Users : GetSubjects(u)

SpecSubjects == Init /\ [][NextSubjects]_vars

\* Sequential writes of two users who try every subject id, their own and
\* the other user's, when they create or move a task or a session
NextIsolation ==
  \/ \E u \in Users, name \in {"Math", "Physics"} : PostSubject(u, name)
  \/ \E u \in Users, s \in SubjectIds : PostTask(u, s, 0, 30)
  \/ \E u \in Users, s \in SubjectIds : PostSession(u, s, 0, 25)
  \/ \E u \in Users, id \in TaskIds, s \in SubjectIds :
        PutTask(u, id, PutBody({s}, NULL, NULL, NULL, FALSE))
  \/ \E u \in Users, id \in SessionIds, s \in SubjectIds :
        PutSession(u, id, PutSessionBody({s}, NULL, NULL, FALSE))
  \/ \E u \in Users, id \in TaskIds : PatchComplete(u, id, "b:true")

SpecIsolation == Init /\ [][NextIsolation]_vars

\* The calendar rollups are read on a Monday (day 14) or on the Sunday of the
\* same week (day 20).  Due dates: day 6 (two weeks back), day 13 (the
\* Sunday before), day 14 and day 20.
CalToday == {14, 20}
CalDueDates == {6, 13, 14, 20}
CalSessionDates == {13, 14}
WeeksParams == Optional((WeeksMin - 1)..(WeeksMax + 1))
DailyWindows ==
  {[start_date |-> NULL, end_date |-> NULL],
   [start_date |-> {14}, end_date |-> NULL],
   [start_date |-> {14}, end_date |-> {14}],
   [start_date |-> {13}, end_date |-> {20}],
   [start_date |-> {20}, end_date |-> {14}]}

InitCal ==
  /\ subjects = <<>>
  /\ tasks = <<>>
  /\ sessions = <<>>
  /\ today \in CalToday
  /\ resp = Idle
  /\ reqs = <<>>

\* Sequential writes on one day: user u1 creates tasks and sessions on the
\* dates above and completes tasks, while user u2 owns a task and a session
\* dated day 14.
CalWrites ==
  \/ \E u \in Users : PostSubject(u, "Math")
  \/ \E s \in SubjectIds, d \in CalDueDates : PostTask("u1", s, d, 30)
  \/ \E s \in SubjectIds : PostTask("u2", s, 14, 30)
  \/ \E s \in SubjectIds, d \in CalSessionDates : PostSession("u1", s, d, 25)
  \/ \E s \in SubjectIds : PostSession("u2", s, 14, 50)
  \/ \E id \in TaskIds, c \in JsonBooleans : PatchComplete("u1", id, c)

\* The writes above with user u1 reading the weekly rollup
NextWeekly ==
  \/ CalWrites
  \/ \E w \in WeeksParams : GetWeekly("u1", w)

SpecWeekly == InitCal /\ [][NextWeekly]_vars

\* The writes above with user u1 reading the daily rollup
NextDaily ==
  \/ CalWrites
  \/ \E q \in DailyWindows : GetDaily("u1", q.start_date, q.end_date)

SpecDaily == InitCal /\ [][NextDaily]_vars

ReadWeeks == {NULL, {1}}

\* The writes above with user u1 reading all four aggregations
NextReads ==
  \/ CalWrites
  \/ GetStats("u1")
  \/ \E w \in ReadWeeks : GetWeekly("u1", w)
  \/ GetSubjects("u1")
  \/ \E q \in DailyWindows : GetDaily("u1", q.start_date, q.end_date)

SpecReads == InitCal /\ [][NextReads]_vars

FailWeeks == {NULL, {WeeksMin - 1}, {WeeksMin}, {WeeksMax}, {WeeksMax + 1}}

\* One user's aggregation requests, one at a time, any query of which may
\* fail, while the user creates and completes tasks and logs a session
\* between their steps
NextFail ==
  \/ PostSubject("u1", "Math")
  \/ \E s \in SubjectIds : PostTask("u1", s, 0, 30)
  \/ \E s \in SubjectIds : PostSession("u1", s, 0, 25)
  \/ \E id \in TaskIds : PatchComplete("u1", id, "b:true")
  \/ StatsBegin(1, "u1")
  \/ \E w \in FailWeeks : WeeklyBegin(1, "u1", w)
  \/ SubjectsBegin(1, "u1")
  \/ DailyBegin(1, "u1", {0}, {0})
  \/ \E ok \in BOOLEAN : QuerySettles(1, ok)
  \/ HandlerResumes(1)

SpecFail == Init /\ [][NextFail]_vars

\* Overlapping create-subject and update-subject requests of two users, up
\* to MaxReqs in flight, their queries interleaved in every order
NextNames ==
  \/ \E r \in ReqIds, u \in Users, name \in {"Math", "Physics"} : PostSubjectCheck(r, u, name)
  \/ \E r \in ReqIds : PostSubjectInsert(r)
  \/ \E r \in ReqIds, u \in Users, id \in SubjectIds, name \in Optional({"Math", "Physics"}),
         color \in BOOLEAN : PutSubjectRead(r, u, id, name, color)
  \/ \E r \in ReqIds : PutSubjectDuplicate(r)
  \/ \E r \in ReqIds : PutSubjectUpdate(r)

SpecNames == Init /\ [][NextNames]_vars

\* Overlapping create-subject requests of two users, up to MaxReqs in
\* flight, their two queries interleaved in every order
NextCreate ==
  \/ \E r \in ReqIds, u \in Users, name \in {"Math", "Physics"} : PostSubjectCheck(r, u, name)
  \/ \E r \in ReqIds : PostSubjectInsert(r)

SpecCreate == Init /\ [][NextCreate]_vars

Names == {"Math", "Physics"}
SubjectUpdates == {<<name, color>> \in Optional(Names) \X BOOLEAN : name = NULL \/ ~color}
TaskUpdates == {PutBody(s, NULL, NULL, NULL, o) : s \in Optional(SubjectIds), o \in BOOLEAN}
SessionUpdates == {PutSessionBody(s, NULL, NULL, FALSE) : s \in Optional(SubjectIds)}

\* Sequential requests of two users: every create, update and delete of
\* subjects, tasks and study sessions, on every id, their own or not
NextCrud ==
  \/ \E u \in Users, name \in Names : PostSubject(u, name)
  \/ \E u \in Users, id \in SubjectIds, b \in SubjectUpdates : PutSubject(u, id, b[1], b[2])
  \/ \E u \in Users, id \in SubjectIds : DeleteSubject(u, id)
  \/ \E u \in Users, s \in SubjectIds : PostTask(u, s, 0, 30)
  \/ \E u \in Users, id \in TaskIds, b \in TaskUpdates : PutTask(u, id, b)
  \/ \E u \in Users, id \in TaskIds : PatchComplete(u, id, "b:true")
  \/ \E u \in Users, id \in TaskIds : DeleteTask(u, id)
  \/ \E u \in Users, s \in SubjectIds : PostSession(u, s, 0, 25)
  \/ \E u \in Users, id \in SessionIds, b \in SessionUpdates : PutSession(u, id, b)
  \/ \E u \in Users, id \in SessionIds : DeleteSession(u, id)

SpecCrud == Init /\ [][NextCrud]_vars

\* The `completed` values isBoolean() lets through: the JSON booleans and
\* the strings 'true', 'false', '1' and '0'
BooleanForms == {"b:true", "b:false", "s:true", "s:false", "s:1", "s:0"}

\* Sequential requests of one user who creates tasks and sets `completed`
\* through both routes, in every accepted form, on successive days
NextForms ==
  \/ PostSubject("u1", "Math")
  \/ \E s \in SubjectIds : PostTask("u1", s, 0, 30)
  \/ \E id \in TaskIds, c \in BooleanForms : PutTask("u1", id, PutBody(NULL, NULL, NULL, {c}, FALSE))
  \/ \E id \in TaskIds, c \in BooleanForms : PatchComplete("u1", id, c)
  \/ Tick

SpecForms == Init /\ [][NextForms]_vars

\* Overlapping requests of one user: up to MaxReqs task updates (PUT and
\* PATCH complete) are in flight at a time, their queries interleaved in
\* every order.
NextConc ==
  \/ PostSubject("u1", "Math")
  \/ \E s \in SubjectIds : PostTask("u1", s, 0, 30)
  \/ \E r \in ReqIds, id \in TaskIds, c \in JsonBooleans :
        PutRead(r, "u1", id, PutBody(NULL, NULL, NULL, {c}, FALSE))
  \/ \E r \in ReqIds, id \in TaskIds, s \in SubjectIds :
        PutRead(r, "u1", id, PutBody({s}, NULL, NULL, NULL, FALSE))
  \/ \E r \in ReqIds : PutCheckSubject(r)
  \/ \E r \in ReqIds : PutUpdate(r)
  \/ \E r \in ReqIds, id \in TaskIds, c \in JsonBooleans : PatchRead(r, "u1", id, c)
  \/ \E r \in ReqIds : PatchUpdate(r)

SpecConc == Init /\ [][NextConc]_vars

\* Overlapping requests of two users that create, move and delete subjects
\* and tasks, and of one of them that logs, moves and deletes study sessions,
\* up to MaxReqs in flight, their queries interleaved in every order
NextRace ==
  \/ \E u \in Users : PostSubjectNew(u, "Math")
  \/ \E r \in ReqIds, u \in Users, s \in SubjectIds : PostTaskCheck(r, u, s, 0, 30)
  \/ \E r \in ReqIds : PostTaskInsert(r)
  \/ \E r \in ReqIds, s \in SubjectIds : PostSessionCheck(r, "u1", s, 0, 25)
  \/ \E r \in ReqIds : PostSessionInsert(r)
  \/ \E r \in ReqIds, u \in Users, id \in TaskIds, s \in SubjectIds :
        PutRead(r, u, id, PutBody({s}, NULL, NULL, NULL, FALSE))
  \/ \E r \in ReqIds : PutCheckSubject(r)
  \/ \E r \in ReqIds : PutUpdate(r)
  \/ \E r \in ReqIds, id \in SessionIds, s \in SubjectIds :
        PutSessionRead(r, "u1", id, PutSessionBody({s}, NULL, NULL, FALSE))
  \/ \E r \in ReqIds : PutSessionCheckSubject(r)
  \/ \E r \in ReqIds : PutSessionUpdate(r)
  \/ \E r \in ReqIds, u \in Users, id \in SubjectIds : DeleteSubjectRead(r, u, id)
  \/ \E r \in ReqIds : DeleteSubjectTasksCheck(r)
  \/ \E r \in ReqIds : DeleteSubjectDelete(r)
  \/ \E u \in Users, id \in TaskIds : DeleteTask(u, id)
  \/ \E id \in SessionIds : DeleteSession("u1", id)

SpecRace == Init /\ [][NextRace]_vars

-----------------------------------------------------------------------------
(* Properties *)

OtherUser(u) == CHOOSE v \in Users : v # u

\* The streak as specified: the distinct completion dates sorted descending,
\* and the length of the longest prefix in which each date is the previous
\* date minus one day
Latest(D) == CHOOSE m \in D : \A d \in D : d <= m
ConsecutiveRun(D) ==
  IF D = {} THEN 0
  ELSE CHOOSE k \in 1..Cardinality(D) :
         /\ \A i \in 0..(k - 1) : (Latest(D) - i) \in D
         /\ (Latest(D) - k) \notin D

CompletionDates(u) ==
  {d \in 0..MaxDay : \E t \in DOMAIN tasks :
      tasks[t].user_id = u /\ tasks[t].completed /\ tasks[t].completed_at = {d}}

\* C1: the currentStreak of every /stats answer is the length of the longest
\* run of consecutive days at the head of the user's distinct completion
\* dates (k consecutive most recent days give k, a gap after the most recent
\* day gives 1).
C1_StreakIsConsecutiveRun ==
  resp.op = "stats" => resp.body.currentStreak = ConsecutiveRun(CompletionDates(resp.user))

\* C2: after any sequence of non-overlapping task create, PUT and PATCH
\* complete requests with a JSON boolean `completed`, every stored task has
\* completed_at non-null iff completed is true.
C2_CompletedAtIffCompleted ==
  \A t \in DOMAIN tasks : (tasks[t].completed_at # NULL) <=> (tasks[t].completed = TRUE)

\* C2 witness: a task completed on an earlier day is still completed, with
\* its stamp, after a PUT that succeeded
C2_Witness ==
  /\ resp.op = "putTask" /\ resp.status = 200
  /\ \E t \in DOMAIN tasks, d \in 0..MaxDay :
       d < today /\ tasks[t].completed /\ tasks[t].completed_at = {d}
  /\ \E t \in DOMAIN tasks : ~tasks[t].completed /\ tasks[t].completed_at = NULL

\* C10: every /stats answer (no write between its queries) reports the
\* number of the user's tasks, the number of them completed, pendingTasks =
\* totalTasks - completedTasks, and the sum of the user's session durations.
C10_StatsCounts ==
  resp.op = "stats" =>
    LET mine == {t \in DOMAIN tasks : tasks[t].user_id = resp.user}
        done == {t \in mine : tasks[t].completed}
        studied == {x \in DOMAIN sessions : sessions[x].user_id = resp.user}
    IN /\ resp.body.totalTasks = Cardinality(mine)
       /\ resp.body.completedTasks = Cardinality(done)
       /\ resp.body.pendingTasks = resp.body.totalTasks - resp.body.completedTasks
       /\ resp.body.totalStudyTime = SumOver([x \in studied |-> sessions[x].duration], studied)

\* C10 witness: statistics of a user with one completed task and one session
\* while the other user has a task and a session too
C10_Witness ==
  /\ resp.op = "stats"
  /\ resp.body.totalTasks = 1 /\ resp.body.completedTasks = 1 /\ resp.body.totalStudyTime = 50
  /\ \E t \in DOMAIN tasks : tasks[t].user_id = OtherUser(resp.user)
  /\ \E x \in DOMAIN sessions : sessions[x].user_id = OtherUser(resp.user)

\* Oracles of the rollups, written from the data model: the user's tasks due
\* (sessions held) on the days from..to
TasksDueIn(u, from, to) ==
  {t \in DOMAIN tasks : tasks[t].user_id = u /\ from <= tasks[t].due_date /\ tasks[t].due_date <= to}
SessionsIn(u, from, to) ==
  {x \in DOMAIN sessions :
     sessions[x].user_id = u /\ from <= sessions[x].session_date /\ sessions[x].session_date <= to}
StudyMinutes(X) == SumOver([x \in X |-> sessions[x].duration], X)

\* An entry reports exactly the user's tasks and sessions of the days from..to
CountsMatch(e, u, from, to) ==
  /\ e.totalTasks = Cardinality(TasksDueIn(u, from, to))
  /\ e.completedTasks = Cardinality({t \in TasksDueIn(u, from, to) : tasks[t].completed})
  /\ e.studyTime = StudyMinutes(SessionsIn(u, from, to))

\* C4: in every /subjects answer each subject's totalTasks is the number of
\* tasks of the subject and completedTasks the number of them completed,
\* whatever the number of sessions of the subject.
C4_SubjectTaskCounts ==
  resp.op = "subjects" =>
    \A i \in DOMAIN resp.body :
      LET e == resp.body[i]
          mine == {t \in DOMAIN tasks : tasks[t].subject_id = e.id}
      IN /\ e.totalTasks = Cardinality(mine)
         /\ e.completedTasks = Cardinality({t \in mine : tasks[t].completed})

\* C5: in every /subjects answer each subject's totalStudyTime is the sum of
\* the durations of the subject's sessions, each counted once (0 without any).
C5_SubjectStudyTime ==
  resp.op = "subjects" =>
    \A i \in DOMAIN resp.body :
      LET e == resp.body[i]
      IN e.totalStudyTime = StudyMinutes({x \in DOMAIN sessions : sessions[x].subject_id = e.id})

GivenWindow == resp.query.start_date # NULL /\ resp.query.end_date # NULL
GivenStart == CHOOSE d \in resp.query.start_date : TRUE
GivenEnd == CHOOSE d \in resp.query.end_date : TRUE

\* C6: a /daily answer for startDate <= endDate has endDate - startDate + 1
\* entries, one per day of the range in ascending order, each with the counts
\* of the user's tasks due that day and the minutes of the user's sessions of
\* that day (all zero on a day with neither).
C6_DailyEntries ==
  (resp.op = "daily" /\ GivenWindow /\ GivenStart <= GivenEnd) =>
    /\ Len(resp.body) = GivenEnd - GivenStart + 1
    /\ \A i \in DOMAIN resp.body :
         /\ resp.body[i].date = GivenStart + i - 1
         /\ CountsMatch(resp.body[i], resp.user, resp.body[i].date, resp.body[i].date)

\* C6 witness: the window day 13..day 20 with a completed task of the user on
\* one day, a session on one day, an empty day, and a task of the other user
\* due on a day that is reported with no task
C6_Witness ==
  /\ resp.op = "daily" /\ GivenWindow /\ GivenStart = 13 /\ GivenEnd = 20
  /\ \E i \in DOMAIN resp.body : resp.body[i].totalTasks = 1 /\ resp.body[i].completedTasks = 1
  /\ \E i \in DOMAIN resp.body : resp.body[i].studyTime = 25
  /\ \E i \in DOMAIN resp.body, t \in DOMAIN tasks :
       /\ tasks[t].user_id = OtherUser(resp.user) /\ tasks[t].due_date = resp.body[i].date
       /\ resp.body[i].totalTasks = 0 /\ resp.body[i].studyTime = 0

\* C7: with neither start_date nor end_date the /daily answer has exactly 30
\* entries and its last entry is today.
C7_DefaultWindow30 ==
  (resp.op = "daily" /\ resp.query.start_date = NULL /\ resp.query.end_date = NULL) =>
    /\ Len(resp.body) = 30
    /\ resp.body[Len(resp.body)].date = today

Weeks == IF resp.query = NULL THEN 4 ELSE CHOOSE w \in resp.query : TRUE
\* The Monday of the current calendar week
ThisMonday == CHOOSE m \in (today - 6)..today : m % 7 = 0

\* C8: a /weekly answer for weeks in 1..12 (4 when omitted) has exactly
\* `weeks` entries with pairwise distinct weekStart values: the current week
\* and the weeks-1 weeks before it, most recent first, whatever is stored.
C8_WeeklyEntries ==
  (resp.op = "weekly" /\ Weeks \in 1..12) =>
    /\ resp.status = 200
    /\ Len(resp.body) = Weeks
    /\ \A i \in DOMAIN resp.body : resp.body[i].weekStart = ThisMonday - 7 * (i - 1)
    /\ \A i, j \in DOMAIN resp.body : i # j => resp.body[i].weekStart # resp.body[j].weekStart

\* C8 witness: one week is asked for while every task of the user is due
\* before that week, one of them two weeks back
C8_Witness ==
  /\ resp.op = "weekly" /\ resp.query = {1} /\ Len(resp.body) = 1
  /\ \E t \in DOMAIN tasks : tasks[t].user_id = resp.user /\ tasks[t].due_date = 6
  /\ \A t \in DOMAIN tasks : tasks[t].user_id = resp.user => tasks[t].due_date < 13

\* C9: every week of a /weekly answer counts exactly the user's tasks due in
\* the seven days from its weekStart (none cut off by the lower-bound
\* filter) and sums exactly the user's sessions of those days.
C9_WeeklyCounts ==
  (resp.op = "weekly" /\ resp.status = 200) =>
    \A i \in DOMAIN resp.body :
      CountsMatch(resp.body[i], resp.user, resp.body[i].weekStart, resp.body[i].weekStart + 6)

\* C9 witness: on the Sunday, one week asked for: a task due on the Monday
\* six days back is counted, a task due the day before that Monday is not;
\* likewise one session is in the week and one is not
C9_Witness ==
  /\ resp.op = "weekly" /\ resp.status = 200 /\ resp.query = {1} /\ today = 20
  /\ resp.body[1].totalTasks = 1 /\ resp.body[1].studyTime = 25
  /\ \E t \in DOMAIN tasks : tasks[t].user_id = resp.user /\ tasks[t].due_date = 14
  /\ \E t \in DOMAIN tasks : tasks[t].user_id = resp.user /\ tasks[t].due_date = 13
  /\ Cardinality({x \in DOMAIN sessions : sessions[x].user_id = resp.user}) = 2

\* C3: completed_at is non-null iff completed is true for every task in
\* every reachable state, also when two updates of the same task (PUT and/or
\* PATCH complete) overlap, each reading the row and later running its UPDATE.
C3_CompletedAtIffCompletedOverlapping ==
  \A t \in DOMAIN tasks :
    IF tasks[t].completed THEN tasks[t].completed_at # NULL ELSE tasks[t].completed_at = NULL

\* r is x / y * 100 rounded to the nearest integer (a half rounds up), and 0
\* when y is 0
IsRate(r, x, y) ==
  IF y = 0 THEN r = 0
  ELSE /\ r \in 0..100
       /\ 2 * r * y - y <= 200 * x
       /\ 200 * x < 2 * r * y + y

C12_OneEntryPerSubject ==
  resp.op = "subjects" =>
    LET owned == {s \in DOMAIN subjects : subjects[s].user_id = resp.user}
    IN /\ Len(resp.body) = Cardinality(owned)
       /\ {resp.body[i].id : i \in DOMAIN resp.body} = owned
       /\ \A i \in DOMAIN resp.body : resp.body[i].name = subjects[resp.body[i].id].name
       /\ \A i, j \in DOMAIN resp.body :
            i < j => NameRank(resp.body[i].name) < NameRank(resp.body[j].name)
       /\ \A i \in DOMAIN resp.body :
            (\A t \in DOMAIN tasks : tasks[t].subject_id # resp.body[i].id) =>
              /\ resp.body[i].totalTasks = 0 /\ resp.body[i].completedTasks = 0
              /\ resp.body[i].avgEstimatedTime = 0 /\ resp.body[i].completionRate = 0

\* C12 witness: the user owns two subjects, created in the reverse order of
\* their names; one has a task and the other has neither task nor session
C12_Witness ==
  /\ resp.op = "subjects" /\ Len(resp.body) = 2
  /\ resp.body[1].id > resp.body[2].id
  /\ \E i \in DOMAIN resp.body : resp.body[i].totalTasks > 0
  /\ \E i \in DOMAIN resp.body :
       /\ \A t \in DOMAIN tasks : tasks[t].subject_id # resp.body[i].id
       /\ \A x \in DOMAIN sessions : sessions[x].subject_id # resp.body[i].id

\* r is the arithmetic mean of estimated_time over the tasks T rounded to the
\* nearest integer (a half rounds up), and 0 when T is empty
IsRoundedMean(r, T) ==
  LET n == Cardinality(T)
      total == SumOver([t \in T |-> tasks[t].estimated_time], T)
  IN IF n = 0 THEN r = 0
     ELSE 2 * r * n - n <= 2 * total /\ 2 * total < 2 * r * n + n

\* C13: in every /subjects answer avgEstimatedTime of a subject is the
\* rounded mean of estimated_time over the subject's tasks, each task counted
\* once, whatever the number of sessions of the subject.
C13_AvgEstimatedTime ==
  resp.op = "subjects" =>
    \A i \in DOMAIN resp.body :
      IsRoundedMean(resp.body[i].avgEstimatedTime,
                    {t \in DOMAIN tasks : tasks[t].subject_id = resp.body[i].id})

\* C13 witness: a subject with a 30-minute and a 45-minute task and two
\* sessions reports the mean 37.5 rounded to 38
C13_Witness ==
  /\ resp.op = "subjects"
  /\ \E i \in DOMAIN resp.body :
       /\ resp.body[i].avgEstimatedTime = 38
       /\ {tasks[t].estimated_time :
             t \in {x \in DOMAIN tasks : tasks[x].subject_id = resp.body[i].id}} = {30, 45}
       /\ Cardinality({x \in DOMAIN sessions : sessions[x].subject_id = resp.body[i].id}) = 2

\* The rows of user u in the three tables
UserRows(u) ==
  <<[s \in {x \in DOMAIN subjects : subjects[x].user_id = u} |-> subjects[s]],
    [t \in {x \in DOMAIN tasks : tasks[x].user_id = u} |-> tasks[t]],
    [x \in {y \in DOMAIN sessions : sessions[y].user_id = u} |-> sessions[x]]>>

\* What the four aggregations answer to user u: the statistics, the current
\* week, the current day, and the rows of the /subjects query (its groups
\* with their names and aggregates, which the JSON mapping only reshapes)
Outputs(u) ==
  <<StatsBody(u), WeeklyBody(u, WeeksMin), DailyBody(u, today, today),
    [s \in {x \in DOMAIN subjects : subjects[x].user_id = u} |->
       <<subjects[s].name, SubjectAggregates(s)>>]>>

\* Every task and session hangs under a subject of its own user
OwnSubjectsOnly ==
  /\ \A t \in DOMAIN tasks :
       tasks[t].subject_id \in DOMAIN subjects /\
       subjects[tasks[t].subject_id].user_id = tasks[t].user_id
  /\ \A x \in DOMAIN sessions :
       sessions[x].subject_id \in DOMAIN subjects /\
       subjects[sessions[x].subject_id].user_id = sessions[x].user_id

\* C14: a request that leaves the subjects, tasks and sessions of user u as
\* they are (a write of another user through the CRUD routes) leaves what
\* /stats, /weekly, /subjects and /daily answer to u unchanged; no row of
\* one user is ever joined to a subject of another.
C14_NoCrossUser ==
  [][/\ OwnSubjectsOnly'
     /\ \A u \in Users :
          (UserRows(u)' = UserRows(u) /\ today' = today) => Outputs(u)' = Outputs(u)]_vars

\* C14 witness: each user owns a subject with a task, there is a session,
\* and a user's attempt to create a session under the other user's subject
\* was answered 404
C14_Witness ==
  /\ resp.op = "postSession" /\ resp.status = 404
  /\ DOMAIN subjects = SubjectIds
  /\ DOMAIN sessions # {}
  /\ \A u \in Users :
       /\ \E s \in DOMAIN subjects : subjects[s].user_id = u
       /\ \E t \in DOMAIN tasks : tasks[t].user_id = u

ReadOps == {"stats", "weekly", "subjects", "daily"}

C16_WeeksOutOfRangeRejected ==
  /\ (resp.op = "weekly" /\ \E w \in resp.query : w \notin 1..12) =>
        resp.status = 400 /\ resp.body = <<>>
  /\ \A r \in DOMAIN reqs :
        reqs[r].op = "weekly" => \A w \in reqs[r].query : w \in 1..12

\* C16 witness: weeks=13 was answered 400 while the user has a task, and no
\* request is in flight
C16_Witness ==
  /\ resp.op = "weekly" /\ resp.query = {13} /\ resp.status = 400
  /\ reqs = <<>>
  /\ DOMAIN tasks # {}

\* C17: when a query of an aggregation request has failed, the next step of
\* that request is its answer: the 500 with no aggregate in it; the request
\* is then over (no retry, no further query) and the store is as it was.
C17_FailureIsAllOrNothing ==
  [][\A r \in DOMAIN reqs :
       (/\ reqs[r].op \in ReadOps /\ reqs[r].outcome = "error"
        /\ (r \notin DOMAIN reqs' \/ reqs'[r] # reqs[r]))
         => /\ r \notin DOMAIN reqs'
            /\ resp' = Respond(reqs[r].op, reqs[r].user, reqs[r].query, 500, <<>>)
            /\ store' = store]_vars

\* C17 witness: the third query of a /stats request has failed after the
\* first two returned their rows, the user having a completed task
C17_Witness ==
  \E r \in DOMAIN reqs :
    /\ reqs[r].op = "stats" /\ reqs[r].pc = "streak" /\ reqs[r].outcome = "error"
    /\ Len(reqs[r].rows) = 2 /\ reqs[r].rows[1].completed_tasks = 1

\* C18: the currentStreak of every /stats answer is at least 1 when the user
\* has a task with completed true and a completion timestamp, on whatever
\* day that was, and 0 when the user has none.
C18_StreakAnchoredAtLastCompletion ==
  resp.op = "stats" =>
    LET done == {t \in DOMAIN tasks : /\ tasks[t].user_id = resp.user
                                      /\ tasks[t].completed /\ tasks[t].completed_at # NULL}
    IN IF done # {} THEN resp.body.currentStreak >= 1 ELSE resp.body.currentStreak = 0

\* C18 witness: two days after the user's only completion the streak is
\* still reported as at least 1
C18_Witness ==
  /\ resp.op = "stats" /\ resp.body.currentStreak >= 1
  /\ today = 2
  /\ \A t \in DOMAIN tasks :
       (tasks[t].user_id = resp.user /\ tasks[t].completed) => tasks[t].completed_at = {0}

\* C19: a /daily request with start_date later than end_date is answered
\* 200 with an empty dailyProgress.
C19_ReversedRangeIsEmpty ==
  (resp.op = "daily" /\ GivenWindow /\ GivenStart > GivenEnd) =>
    resp.status = 200 /\ resp.body = <<>>

\* C19 witness: the window from day 20 back to day 14 is answered with no
\* entry while the user has a task due on a day between the two
C19_Witness ==
  /\ resp.op = "daily" /\ resp.status = 200 /\ resp.body = <<>>
  /\ resp.query.start_date = {20} /\ resp.query.end_date = {14}
  /\ \E t \in DOMAIN tasks :
       tasks[t].user_id = resp.user /\ tasks[t].due_date \in 14..20

\* C20: in every reachable state, whatever create-subject and
\* update-subject requests have run and however their queries interleaved,
\* no two subjects of the same user have the same name.
C20_SubjectNamesUnique ==
  \A s1, s2 \in DOMAIN subjects :
    (s1 # s2 /\ subjects[s1].user_id = subjects[s2].user_id) =>
      subjects[s1].name # subjects[s2].name

\* C20 witness: a rename that had passed its duplicate check was rejected
\* by the store (500) because a subject of that name had been stored in
\* between; the user's two subjects have different names
C20_Witness ==
  /\ resp.op = "putSubject" /\ resp.status = 500
  /\ DOMAIN subjects = SubjectIds
  /\ \A s \in DOMAIN subjects : subjects[s].user_id = resp.user


\* Referential integrity of the store: every task and every study session
\* refers to a subject that exists and belongs to the row's own user
RefersToOwnSubject(row) ==
  /\ row.subject_id \in DOMAIN subjects
  /\ subjects[row.subject_id].user_id = row.user_id

\* C21: a DELETE /subjects/:id that finds a task referring to the subject
\* answers 409 and changes nothing, and one that answers 200 removes no
\* task from the store, whatever task creation overlaps it
C21_SubjectDeleteRemovesNoTask ==
  [][resp'.op = "deleteSubject" =>
       /\ resp'.status = 409 => store' = store
       /\ resp'.status = 200 => tasks' = tasks]_vars

\* C22: a create-subject request for a name the user already has answers 409
\* and leaves the store unchanged, and of two overlapping create-subject
\* requests of one user for one name one answers 201 and the other 409:
\* no create-subject request answers 500
C22_DuplicateCreateAnswers409 ==
  [][resp'.op = "postSubject" =>
       /\ resp'.status \in {201, 409}
       /\ resp'.status = 409 => store' = store]_vars

\* The user has no row of that id in the table: the id does not exist or the
\* row belongs to another user
NotOwn(table, id, u) == id \notin DOMAIN table \/ table[id].user_id # u

\* The request is answered 404 and has changed no table
NotFound == resp'.status = 404 /\ store' = store

\* C23: every update or delete of a task, study session or subject whose id
\* does not exist or belongs to another user is answered 404 and leaves the
\* whole store unchanged, and so is every task or session create or update
\* that names a subject the user does not own: a step that is not such an
\* answer is no step of such a request
C23_MissingOrForeignIs404 ==
  [][\/ NotFound
     \/ /\ \A u \in Users, id \in TaskIds : NotOwn(tasks, id, u) =>
             /\ \A b \in TaskUpdates : ~PutTask(u, id, b)
             /\ ~PatchComplete(u, id, "b:true")
             /\ ~DeleteTask(u, id)
        /\ \A u \in Users, id \in SessionIds : NotOwn(sessions, id, u) =>
             /\ \A b \in SessionUpdates : ~PutSession(u, id, b)
             /\ ~DeleteSession(u, id)
        /\ \A u \in Users, id \in SubjectIds : NotOwn(subjects, id, u) =>
             /\ \A b \in SubjectUpdates : ~PutSubject(u, id, b[1], b[2])
             /\ ~DeleteSubject(u, id)
             /\ ~PostTask(u, id, 0, 30)
             /\ ~PostSession(u, id, 0, 25)
             /\ \A t \in TaskIds : ~PutTask(u, t, PutBody({id}, NULL, NULL, NULL, FALSE))
             /\ \A x \in SessionIds : ~PutSession(u, x, PutSessionBody({id}, NULL, NULL, FALSE))]_vars

\* A user who owns no task has been answered 404 for a task delete while
\* every task id exists, under a subject of the other user
C23_Witness ==
  /\ resp.op = "deleteTask" /\ resp.status = 404
  /\ DOMAIN tasks = TaskIds
  /\ \A t \in DOMAIN tasks : tasks[t].user_id # resp.user
  /\ \E s \in DOMAIN subjects : subjects[s].user_id = resp.user

\* C24: PATCH /tasks/:id/complete with completed = c leaves the task's
\* completed and completed_at as PUT /tasks/:id with {completed: c} would
\* leave them, whatever the task's state before; marking a task completed
\* that is completed already keeps its completed_at
C24_PatchCompleteEqualsPut ==
  [][\A u \in Users, id \in DOMAIN tasks, c \in JsonBooleans :
       (tasks[id].user_id = u /\ PatchComplete(u, id, c)) =>
          LET put == PutTaskSet(tasks[id], PutBody(NULL, NULL, NULL, {c}, FALSE),
                                tasks[id].completed, today)
          IN /\ tasks'[id].completed = put.completed
             /\ tasks'[id].completed_at = put.completed_at
             /\ (tasks[id].completed /\ c = "b:true") =>
                   tasks'[id].completed_at = tasks[id].completed_at]_vars

\* C25: after a PUT /tasks/:id or PATCH /tasks/:id/complete that succeeded
\* with a `completed` value in any form the validation accepts, the task's
\* completed_at is non-null iff the stored completed is true
C25_StampAgreesWithStoredBoolean ==
  [][\A id \in DOMAIN tasks, c \in BooleanForms :
       (\/ PatchComplete("u1", id, c)
        \/ PutTask("u1", id, PutBody(NULL, NULL, NULL, {c}, FALSE))) =>
          ((tasks'[id].completed_at # NULL) <=> tasks'[id].completed)]_vars

\* C26: every /stats answer describes one state of the store, also with the
\* user's task writes between its three queries: a positive currentStreak
\* comes with a positive completedTasks, and completedTasks + pendingTasks
\* = totalTasks
C26_StatsDescribeOneState ==
  (resp.op = "stats" /\ resp.status = 200) =>
     /\ resp.body.currentStreak > 0 => resp.body.completedTasks > 0
     /\ resp.body.completedTasks + resp.body.pendingTasks = resp.body.totalTasks

\* C27: in every reachable state, whatever creates, updates and deletes of
\* subjects, tasks and study sessions the users have issued and however
\* their queries interleaved, every stored task and every stored study
\* session refers to an existing subject of the row's own user
C27_ReferentialIntegrity ==
  /\ \A t \in DOMAIN tasks : RefersToOwnSubject(tasks[t])
  /\ \A x \in DOMAIN sessions : RefersToOwnSubject(sessions[x])

\* A task create was refused by the foreign key (its subject was deleted
\* after the handler had checked it) while the other user's task is stored
C27_Witness ==
  /\ resp.op = "postTask" /\ resp.status = 500
  /\ \E t \in DOMAIN tasks : tasks[t].user_id # resp.user
  /\ \A s \in DOMAIN subjects : subjects[s].user_id # resp.user

=============================================================================
